---- MODULE Spec2Model ----
(***************************************************************************)
(* Tesla daily HVAC automation (src/tesla_daily_hvac.py, src/config.py).   *)
(*                                                                         *)
(* One step of the model is one exchange with the remote service (a token  *)
(* exchange or a vehicle-API request) or one piece of the control flow     *)
(* between two exchanges.  Time is counted in ticks; DayLen ticks make a   *)
(* day.  Task runs take no model time: time passes in the main loop's      *)
(* sleep only.                                                             *)
(***************************************************************************)
EXTENDS Integers, Sequences, FiniteSets, TLC

VARIABLES
    ACCESS_TOKEN,   \* the process-wide credential: NoToken or "token"
    CHECK_DELAY,    \* config: ticks between arming and the shutdown check
    DAYS,           \* config: the active weekdays
    START_TIME,     \* config: time of day (tick within the day) of the daily job
    weekday0,       \* weekday of the day the process started
    now,            \* ticks since midnight of the day the process started
    jobs,           \* schedule's job list
    runList,        \* the due jobs run_pending still has to run in this poll
    pc,             \* position of the single thread
    task,           \* the job function that is running
    site,           \* endpoint of the api_get / api_post call that is running
    apiAttempt,     \* loop index of api_get / api_post
    apiResult,      \* value returned by the api call that last returned
    tokSite,        \* call site of get_access_token: "lazy" or "refresh"
    tokAttempt,     \* loop index of get_access_token
    tokResult,      \* value returned by get_access_token, at "token_return"
    gvdAttempt,     \* loop index of get_vehicle_data
    decision,       \* the snapshot the running task has just decided on
    outcome,        \* how the running task went: Triggered, Skipped, ...
    \* history of the running call / task, for the properties
    reqSent,        \* vehicle-API requests sent by the running api call
    n401,           \* 401 responses received by the running api call
    genericFails,   \* other request failures of the running api call
    authFailed,     \* a token exchange of the running api call was exhausted
    tokSent,        \* exchange attempts of the running get_access_token call
    fetches,        \* api_get calls of the running get_vehicle_data call
    failedFetches,  \* those that returned no data
    wakes,          \* wake_vehicle calls of the running get_vehicle_data call
    cmds,           \* command endpoints called by the running task, in order
    jobsBefore,     \* the job list when the running task started
    postData,       \* the JSON body of the running api_post call
    startResult,    \* what the start command of the running task returned
    \* history of the whole process
    startsIssued,   \* start commands issued so far
    armed,          \* shutdown checks armed so far
    checksRun,      \* runs of check_shutdown started so far
    faulted         \* an exception has reached a job function or the main loop

vars == <<ACCESS_TOKEN, CHECK_DELAY, DAYS, START_TIME, weekday0, now, jobs,
          runList, pc, task, site, apiAttempt, apiResult, tokSite, tokAttempt,
          tokResult, gvdAttempt, decision, outcome, reqSent, n401, genericFails,
          authFailed, tokSent, fetches, failedFetches, wakes, cmds, jobsBefore,
          postData, startResult, startsIssued, armed, checksRun, faulted>>

cfgVars == <<CHECK_DELAY, DAYS, START_TIME, weekday0>>
tokFrame == <<tokSite, tokAttempt, tokResult, tokSent>>
gvdFrame == <<gvdAttempt, fetches, failedFetches, wakes>>
apiHist == <<reqSent, n401, genericFails, authFailed>>
schedVars == <<now, jobs, runList>>
cmdFrame == <<postData, startResult>>
history == <<startsIssued, armed, checksRun, faulted>>

----------------------------------------------------------------------------
(* Bounds of the model *)

MaxTime == 4
DayLen == 2
MaxCheckDelay == 3

(* Program constants *)

OUTDOOR_TEMP_THRESHOLD == 4
INDOOR_TEMP_THRESHOLD == 25
TokenRetries == 3
ApiRetries == 3
GvdRetries == 5
TARGET_TEMP == 18

NoToken == "None"
None == "None"
NoDecision == [kind |-> "none"]

(* An optional reading: Absent, or Some(v). *)
Absent == <<>>
Some(v) == <<v>>

ConfigDays == 0 .. 6
(* an active-day set that leaves out the weekend (0=Monday, 6=Sunday) *)
WorkDays == 0 .. 4

(* Readings a snapshot may carry. *)
OutsideTemps == {Absent, Some(3), Some(4), Some(5)}
InsideTemps == {Absent, Some(24), Some(25), Some(26)}
Speeds == {Absent, Some(0), Some(5)}
Snapshots == [outside_temp : OutsideTemps, inside_temp : InsideTemps, speed : Speeds]

(* Answers of the auth endpoint, as get_access_token tells them apart: a 2xx
   JSON object with or without an access_token field, or a RequestException.
   The answers of the vehicle API are the actions ApiRequest401,
   ApiRequestError, ApiRequestOk and FetchedSnapshot. *)
TokenResponses == {"ok_token", "ok_no_token", "error"}


----------------------------------------------------------------------------
(* The schedule library: the job list and run_pending *)

DailyJob(t) == [func |-> "hvac_job", next_run |-> t, tags |-> {}]
ShutdownJob(t) == [func |-> "check_shutdown", next_run |-> t, tags |-> {"shutdown_check"}]

(* every().day.at(START_TIME): the first START_TIME strictly after t. *)
NextAt(t, start) == CHOOSE u \in (t + 1) .. (t + DayLen) : u % DayLen = start

(* schedule.clear(tag) *)
Clear(js, tag) == SelectSeq(js, LAMBDA j : tag \notin j.tags)

Pending(js) == SelectSeq(js, LAMBDA j : "shutdown_check" \in j.tags)

RECURSIVE Insert(_, _)
Insert(j, sorted) ==
    IF sorted = <<>> THEN <<j>>
    ELSE IF j.next_run < Head(sorted).next_run THEN <<j>> \o sorted
    ELSE <<Head(sorted)>> \o Insert(j, Tail(sorted))

RECURSIVE SortJobs(_)
SortJobs(js) ==
    IF js = <<>> THEN <<>>
    ELSE Insert(js[Len(js)], SortJobs(SubSeq(js, 1, Len(js) - 1)))

(* run_pending: sorted(job for job in jobs if job.should_run) *)
Runnable(js, t) == SortJobs(SelectSeq(js, LAMBDA j : j.next_run <= t))

(* After a run the job's next run is computed; a job no longer in the list is gone. *)
Reschedule(js, t, start) ==
    [i \in 1 .. Len(js) |->
        IF js[i].func = "hvac_job" /\ js[i].next_run <= t
        THEN DailyJob(NextAt(t, start)) ELSE js[i]]

----------------------------------------------------------------------------
(* The decisions *)

(* Trigger with non-strict comparisons *)
TriggerNonStrict(outside_temp, inside_temp) ==
    \/ outside_temp # Absent /\ outside_temp[1] <= OUTDOOR_TEMP_THRESHOLD
    \/ inside_temp # Absent /\ inside_temp[1] >= INDOOR_TEMP_THRESHOLD

(* hvac_job, lines 179-185: trigger_reasons is non-empty *)
Trigger(outside_temp, inside_temp) ==
    \/ outside_temp # Absent /\ outside_temp[1] < OUTDOOR_TEMP_THRESHOLD
    \/ inside_temp # Absent /\ inside_temp[1] > INDOOR_TEMP_THRESHOLD

(* Stationary without the test for an absent speed *)
StationaryZeroOnly(speed) == speed # Absent /\ speed[1] = 0

(* check_shutdown, line 211: speed is None or speed == 0 *)
Stationary(speed) == speed = Absent \/ speed[1] = 0

(* "if not ACCESS_TOKEN" *)
TokenAbsent(tok) == tok = NoToken

(* "if data" / "if resp": None and {} are falsy *)
Truthy(result) == result \notin {None, "EmptyJson"}

----------------------------------------------------------------------------
(* Initial states *)

InitControl ==
    /\ ACCESS_TOKEN = NoToken
    /\ jobs = <<>>
    /\ runList = <<>>
    /\ pc = "start"
    /\ task = "none"
    /\ site = "none"
    /\ apiAttempt = 0
    /\ apiResult = None
    /\ tokSite = "none"
    /\ tokAttempt = 0
    /\ tokResult = "none"
    /\ gvdAttempt = 0
    /\ decision = NoDecision
    /\ outcome = "none"
    /\ reqSent = 0
    /\ n401 = 0
    /\ genericFails = 0
    /\ authFailed = FALSE
    /\ tokSent = 0
    /\ fetches = 0
    /\ failedFetches = 0
    /\ wakes = 0
    /\ cmds = <<>>
    /\ jobsBefore = <<>>
    /\ postData = {}
    /\ startResult = "none"
    /\ startsIssued = 0
    /\ armed = 0
    /\ checksRun = 0
    /\ faulted = FALSE

Init ==
    /\ CHECK_DELAY \in 1 .. MaxCheckDelay
    /\ DAYS = ConfigDays
    /\ START_TIME \in 0 .. (DayLen - 1)
    /\ weekday0 = 0
    /\ now = 0
    /\ InitControl

(* a process started on a Friday or a Saturday, with every day or only the
   working days active *)
InitDays ==
    /\ CHECK_DELAY = 1
    /\ DAYS \in {ConfigDays, WorkDays}
    /\ START_TIME \in 0 .. (DayLen - 1)
    /\ weekday0 \in {4, 5}
    /\ now = 0
    /\ InitControl

(* datetime.weekday() at time t *)
Weekday(t) == (weekday0 + (t \div DayLen)) % 7

----------------------------------------------------------------------------
(* Scheduler *)

(* registering the daily job whatever the weekday *)
ScheduleHvacJobAlways ==
    /\ pc = "start"
    /\ jobs' = <<DailyJob(NextAt(now, START_TIME))>>
    /\ pc' = "run_pending"
    /\ UNCHANGED <<ACCESS_TOKEN, cfgVars, now, runList, task, site, apiAttempt,
                   apiResult, tokFrame, gvdFrame, decision, outcome, apiHist, cmds,
                   jobsBefore>>
    /\ UNCHANGED <<cmdFrame, history>>

(* schedule_hvac_job, lines 221-229 *)
ScheduleHvacJob ==
    /\ pc = "start"
    /\ jobs' = IF weekday0 \in DAYS THEN <<DailyJob(NextAt(now, START_TIME))>> ELSE <<>>
    /\ pc' = "run_pending"
    /\ UNCHANGED <<ACCESS_TOKEN, cfgVars, now, runList, task, site, apiAttempt,
                   apiResult, tokFrame, gvdFrame, decision, outcome, apiHist, cmds,
                   jobsBefore>>
    /\ UNCHANGED <<cmdFrame, history>>

(* main loop, line 234: schedule.run_pending() collects the due jobs *)
RunPending ==
    /\ pc = "run_pending"
    /\ runList' = Runnable(jobs, now)
    /\ pc' = "run_job"
    /\ UNCHANGED <<ACCESS_TOKEN, cfgVars, now, jobs, task, site, apiAttempt,
                   apiResult, tokFrame, gvdFrame, decision, outcome, apiHist, cmds,
                   jobsBefore>>
    /\ UNCHANGED <<cmdFrame, history>>

(* main loop, line 235: nothing left to run in this poll; time.sleep(1) *)
Sleep ==
    /\ pc = "run_job"
    /\ runList = <<>>
    /\ now < MaxTime
    /\ now' = now + 1
    /\ pc' = "run_pending"
    /\ UNCHANGED <<ACCESS_TOKEN, cfgVars, jobs, runList, task, site, apiAttempt,
                   apiResult, tokFrame, gvdFrame, decision, outcome, apiHist, cmds,
                   jobsBefore>>
    /\ UNCHANGED <<cmdFrame, history>>

(* the JSON body sent to endpoint s: lines 148-149, and "data or {}" at line 112 *)
PostData(s) ==
    IF s = "set_temps"
    THEN {<<"driver_temp", TARGET_TEMP>>, <<"passenger_temp", TARGET_TEMP>>}
    ELSE {}

(* Entering api_get / api_post at endpoint s *)
EnterApi(s) ==
    /\ site' = s
    /\ postData' = PostData(s)
    /\ apiAttempt' = 0
    /\ apiResult' = None
    /\ reqSent' = 0
    /\ n401' = 0
    /\ genericFails' = 0
    /\ authFailed' = FALSE
    /\ pc' = "api_loop"

(* Entering get_vehicle_data, line 135-136 *)
EnterGvd ==
    /\ gvdAttempt' = 0
    /\ fetches' = 1
    /\ failedFetches' = 0
    /\ wakes' = 0
    /\ EnterApi("vehicle_data")

(* run_pending runs hvac_job, lines 157-161 *)
RunHvacJob ==
    /\ pc = "run_job"
    /\ runList # <<>>
    /\ Head(runList).func = "hvac_job"
    /\ runList' = Tail(runList)
    /\ task' = "hvac_job"
    /\ cmds' = <<>>
    /\ jobsBefore' = jobs
    /\ EnterGvd
    /\ outcome' = "running"
    /\ UNCHANGED <<ACCESS_TOKEN, cfgVars, now, jobs, tokFrame, decision>>
    /\ UNCHANGED <<startResult, history>>

(* a check_shutdown that leaves its registration in place *)
RunCheckShutdownNoClear ==
    /\ pc = "run_job"
    /\ runList # <<>>
    /\ Head(runList).func = "check_shutdown"
    /\ runList' = Tail(runList)
    /\ task' = "check_shutdown"
    /\ cmds' = <<>>
    /\ jobsBefore' = jobs
    /\ EnterGvd
    /\ outcome' = "running"
    /\ UNCHANGED <<ACCESS_TOKEN, cfgVars, now, jobs, tokFrame, decision>>
    /\ checksRun' = checksRun + 1
    /\ UNCHANGED <<startResult, startsIssued, armed, faulted>>

(* run_pending runs check_shutdown, lines 196-199 *)
RunCheckShutdown ==
    /\ pc = "run_job"
    /\ runList # <<>>
    /\ Head(runList).func = "check_shutdown"
    /\ runList' = Tail(runList)
    /\ task' = "check_shutdown"
    /\ cmds' = <<>>
    /\ jobs' = Clear(jobs, "shutdown_check")
    /\ jobsBefore' = jobs'
    /\ EnterGvd
    /\ outcome' = "running"
    /\ UNCHANGED <<ACCESS_TOKEN, cfgVars, now, tokFrame, decision>>
    /\ checksRun' = checksRun + 1
    /\ UNCHANGED <<startResult, startsIssued, armed, faulted>>

(* The job function has returned: the job is rescheduled, run_pending goes on. *)
JobDone ==
    /\ pc = "job_done"
    /\ jobs' = IF task = "hvac_job" THEN Reschedule(jobs, now, START_TIME) ELSE jobs
    /\ task' = "none"
    /\ decision' = NoDecision
    /\ outcome' = "none"
    /\ cmds' = <<>>
    /\ jobsBefore' = <<>>
    /\ site' = "none"
    /\ apiAttempt' = 0
    /\ apiResult' = None
    /\ reqSent' = 0
    /\ n401' = 0
    /\ genericFails' = 0
    /\ authFailed' = FALSE
    /\ gvdAttempt' = 0
    /\ fetches' = 0
    /\ failedFetches' = 0
    /\ wakes' = 0
    /\ pc' = "run_job"
    /\ UNCHANGED <<ACCESS_TOKEN, cfgVars, now, runList, tokFrame>>
    /\ postData' = {}
    /\ startResult' = "none"
    /\ UNCHANGED history

----------------------------------------------------------------------------
(* Token Manager: get_access_token *)

(* line 70: ACCESS_TOKEN = r.json().get("access_token") *)
StoredToken(resp) == IF resp = "ok_token" THEN "token" ELSE NoToken

(* Entering get_access_token from call site s *)
EnterToken(s) ==
    /\ tokSite' = s
    /\ tokAttempt' = 0
    /\ tokResult' = "none"
    /\ tokSent' = 0
    /\ pc' = "token_request"

LeaveToken ==
    /\ tokSite' = "none"
    /\ tokAttempt' = 0
    /\ tokResult' = "none"
    /\ tokSent' = 0

(* api_get / api_post return result to their caller *)
ApiReturns(result) ==
    /\ apiResult' = result
    /\ failedFetches' = IF site = "vehicle_data" /\ ~Truthy(result)
                        THEN failedFetches + 1 ELSE failedFetches
    /\ pc' = "api_return"

(* get_access_token, lines 66-77: one pass of the loop, one exchange *)
TokenRequest ==
    /\ pc = "token_request"
    /\ tokAttempt < TokenRetries
    /\ \E resp \in TokenResponses :
        /\ tokSent' = tokSent + 1
        /\ IF resp = "error"
           THEN /\ tokAttempt' = tokAttempt + 1
                /\ IF tokAttempt + 1 >= TokenRetries
                   THEN tokResult' = "False" /\ pc' = "token_return"
                   ELSE tokResult' = tokResult /\ pc' = pc
                /\ UNCHANGED ACCESS_TOKEN
           ELSE /\ ACCESS_TOKEN' = StoredToken(resp)
                /\ tokResult' = "True"
                /\ pc' = "token_return"
                /\ UNCHANGED tokAttempt
    /\ UNCHANGED <<cfgVars, schedVars, task, site, apiAttempt, apiResult, tokSite,
                   gvdFrame, decision, outcome, apiHist, cmds, jobsBefore>>
    /\ UNCHANGED <<cmdFrame, history>>

----------------------------------------------------------------------------
(* HTTP Client Wrapper: api_get (lines 79-100) and api_post (lines 102-123) *)

(* a failure that uses up two attempts *)
AfterFailureSkips(attempt) == attempt + 2

(* the loop index after a request failure caught at lines 96-98 / 119-121 *)
AfterFailure(attempt) == attempt + 1

(* a 401 that does not use up a pass of the loop *)
AfterContinueSameSlot(attempt) == attempt

(* the loop index after "continue" at lines 93 / 116 *)
AfterContinue(attempt) == attempt + 1

(* lines 82-86 / 105-109 and 99-100 / 122-123: the top of the loop *)
ApiLoop ==
    /\ pc = "api_loop"
    /\ IF apiAttempt >= ApiRetries
       THEN ApiReturns(None) /\ UNCHANGED tokFrame
       ELSE IF TokenAbsent(ACCESS_TOKEN)
       THEN EnterToken("lazy") /\ UNCHANGED <<apiResult, failedFetches>>
       ELSE pc' = "api_request" /\ UNCHANGED <<tokFrame, apiResult, failedFetches>>
    /\ UNCHANGED <<ACCESS_TOKEN, cfgVars, schedVars, task, site, apiAttempt, gvdAttempt,
                   fetches, wakes, decision, outcome, apiHist, cmds, jobsBefore>>
    /\ UNCHANGED <<cmdFrame, history>>

(* lines 84-85 / 107-108 and 92-93 / 115-116: get_access_token has returned *)
TokenReturn ==
    /\ pc = "token_return"
    /\ authFailed' = (authFailed \/ tokResult = "False")
    /\ IF tokSite = "lazy"
       THEN IF tokResult = "False"
            THEN ApiReturns(None) /\ UNCHANGED apiAttempt
            ELSE pc' = "api_request" /\ UNCHANGED <<apiAttempt, apiResult, failedFetches>>
       ELSE /\ apiAttempt' = AfterContinue(apiAttempt)
            /\ pc' = "api_loop"
            /\ UNCHANGED <<apiResult, failedFetches>>
    /\ LeaveToken
    /\ UNCHANGED <<ACCESS_TOKEN, cfgVars, schedVars, task, site, gvdAttempt, fetches,
                   wakes, decision, outcome, reqSent, n401, genericFails, cmds,
                   jobsBefore>>
    /\ UNCHANGED <<cmdFrame, history>>

(* lines 89-93 / 112-116: the request is answered 401 *)
ApiRequest401 ==
    /\ pc = "api_request"
    /\ reqSent' = reqSent + 1
    /\ n401' = n401 + 1
    /\ EnterToken("refresh")
    /\ UNCHANGED <<ACCESS_TOKEN, cfgVars, schedVars, task, site, apiAttempt, apiResult,
                   gvdFrame, decision, outcome, genericFails, authFailed, cmds,
                   jobsBefore>>
    /\ UNCHANGED <<cmdFrame, history>>

(* lines 94, 96-98 / 117, 119-121: the request fails otherwise *)
ApiRequestError ==
    /\ pc = "api_request"
    /\ reqSent' = reqSent + 1
    /\ genericFails' = genericFails + 1
    /\ apiAttempt' = AfterFailure(apiAttempt)
    /\ pc' = "api_loop"
    /\ UNCHANGED <<ACCESS_TOKEN, cfgVars, schedVars, task, site, apiResult, tokFrame,
                   gvdFrame, decision, outcome, n401, authFailed, cmds, jobsBefore>>
    /\ UNCHANGED <<cmdFrame, history>>

(* lines 94-95 / 117-118: a 2xx answer to a command, or an empty telemetry body *)
ApiRequestOk ==
    /\ pc = "api_request"
    /\ reqSent' = reqSent + 1
    /\ \E body \in IF site = "vehicle_data" THEN {"EmptyJson"} ELSE {"EmptyJson", "Json"} :
        ApiReturns(body)
    /\ UNCHANGED <<ACCESS_TOKEN, cfgVars, schedVars, task, site, apiAttempt, tokFrame,
                   gvdAttempt, fetches, wakes, decision, outcome, n401, genericFails,
                   authFailed, cmds, jobsBefore>>
    /\ UNCHANGED <<cmdFrame, history>>

----------------------------------------------------------------------------
(* Vehicle Accessor and the two job functions *)

(* what the running task decides on a snapshot: lines 185 and 211 *)
Acts(t, snap) ==
    IF t = "hvac_job" THEN Trigger(snap.outside_temp, snap.inside_temp)
    ELSE Stationary(snap.speed)

(* hvac_job without its else branch: start_hvac whatever was decided *)
DecidedPcAlwaysStarts(t, acts) ==
    IF t = "hvac_job"
    THEN "start_hvac"
    ELSE IF acts THEN "stop_hvac" ELSE "job_done"

(* where the task goes on after deciding: lines 185-190 and 211-215 *)
DecidedPc(t, acts) ==
    IF t = "hvac_job"
    THEN IF acts THEN "start_hvac" ELSE "job_done"
    ELSE IF acts THEN "stop_hvac" ELSE "job_done"

(* how the decision is called *)
DecidedOutcome(t, acts) ==
    IF t = "hvac_job"
    THEN IF acts THEN "Triggered" ELSE "Skipped"
    ELSE IF acts THEN "Idle" ELSE "Moving"

(* giving up one attempt early *)
GvdExhaustedEarly(attempt) == attempt + 1 >= GvdRetries - 1

(* get_vehicle_data, line 135: range(retries) is used up after this attempt *)
GvdExhausted(attempt) == attempt + 1 >= GvdRetries

(* lines 94-95, 137-139, then 162-190 or 200-215: telemetry arrives and the
   task decides *)
FetchedSnapshot ==
    /\ pc = "api_request"
    /\ site = "vehicle_data"
    /\ \E snap \in Snapshots :
        /\ decision' = [kind |-> task, snapshot |-> snap]
        /\ outcome' = DecidedOutcome(task, Acts(task, snap))
        /\ pc' = DecidedPc(task, Acts(task, snap))
    /\ site' = "none"
    /\ apiAttempt' = 0
    /\ apiResult' = "Json"
    /\ reqSent' = 0
    /\ n401' = 0
    /\ genericFails' = 0
    /\ authFailed' = FALSE
    /\ UNCHANGED <<ACCESS_TOKEN, cfgVars, schedVars, task, tokFrame, gvdFrame, cmds,
                   jobsBefore>>
    /\ postData' = {}
    /\ UNCHANGED <<startResult, history>>

(* get_vehicle_data, lines 140-141: no data, wake_vehicle() *)
WakeVehicle ==
    /\ pc = "api_return"
    /\ site = "vehicle_data"
    /\ wakes' = wakes + 1
    /\ EnterApi("wake_up")
    /\ UNCHANGED <<ACCESS_TOKEN, cfgVars, schedVars, task, tokFrame, gvdAttempt,
                   fetches, failedFetches, decision, outcome, cmds, jobsBefore>>
    /\ UNCHANGED <<startResult, history>>

(* a shutdown check that goes on to the stop command without a snapshot *)
UnavailablePcFallsThrough(t) ==
    IF t = "check_shutdown" THEN "stop_hvac" ELSE "job_done"

(* lines 162-164 and 200-202: without a snapshot the task logs and returns *)
UnavailablePc(t) == "job_done"

(* get_vehicle_data, lines 142-144 and 135-136: the next attempt, or give up;
   then lines 162-164 / 200-202 *)
NextFetch ==
    /\ pc = "api_return"
    /\ site = "wake_up"
    /\ IF GvdExhausted(gvdAttempt)
       THEN /\ outcome' = "Unavailable"
            /\ pc' = UnavailablePc(task)
            /\ UNCHANGED <<gvdAttempt, fetches, site, apiAttempt, apiResult, apiHist,
                           postData>>
       ELSE /\ gvdAttempt' = gvdAttempt + 1
            /\ fetches' = fetches + 1
            /\ EnterApi("vehicle_data")
            /\ UNCHANGED outcome
    /\ UNCHANGED <<ACCESS_TOKEN, cfgVars, schedVars, task, tokFrame, failedFetches,
                   wakes, decision, cmds, jobsBefore>>
    /\ UNCHANGED <<startResult, history>>

ResetGvd ==
    /\ gvdAttempt' = 0
    /\ fetches' = 0
    /\ failedFetches' = 0
    /\ wakes' = 0

(* a start_hvac that leaves out the start command and only sets the temperatures *)
StartHvacSkipsStart ==
    /\ pc = "start_hvac"
    /\ cmds' = Append(cmds, "set_temps")
    /\ decision' = NoDecision
    /\ ResetGvd
    /\ EnterApi("set_temps")
    /\ UNCHANGED <<ACCESS_TOKEN, cfgVars, schedVars, task, tokFrame, outcome, jobsBefore>>
    /\ UNCHANGED <<startResult, history>>

(* start_hvac, line 147 *)
StartHvac ==
    /\ pc = "start_hvac"
    /\ cmds' = Append(cmds, "auto_conditioning_start")
    /\ decision' = NoDecision
    /\ ResetGvd
    /\ EnterApi("auto_conditioning_start")
    /\ UNCHANGED <<ACCESS_TOKEN, cfgVars, schedVars, task, tokFrame, outcome, jobsBefore>>
    /\ startsIssued' = startsIssued + 1
    /\ UNCHANGED <<startResult, armed, checksRun, faulted>>

(* a start_hvac that gives up when the start command failed *)
SetTempsIfStarted ==
    /\ pc = "api_return"
    /\ site = "auto_conditioning_start"
    /\ IF Truthy(apiResult)
       THEN /\ cmds' = Append(cmds, "set_temps")
            /\ EnterApi("set_temps")
       ELSE /\ pc' = "job_done"
            /\ UNCHANGED <<cmds, site, postData, apiAttempt, apiResult, apiHist>>
    /\ UNCHANGED <<ACCESS_TOKEN, cfgVars, schedVars, task, tokFrame, gvdFrame, decision,
                   outcome, jobsBefore>>
    /\ startResult' = apiResult
    /\ UNCHANGED history

(* start_hvac, lines 148-149 *)
SetTemps ==
    /\ pc = "api_return"
    /\ site = "auto_conditioning_start"
    /\ cmds' = Append(cmds, "set_temps")
    /\ EnterApi("set_temps")
    /\ UNCHANGED <<ACCESS_TOKEN, cfgVars, schedVars, task, tokFrame, gvdFrame, decision,
                   outcome, jobsBefore>>
    /\ startResult' = apiResult
    /\ UNCHANGED history

(* arming only when the set-temperature command succeeded *)
ArmShutdownCheckIfOk ==
    /\ pc = "api_return"
    /\ site = "set_temps"
    /\ jobs' = IF Truthy(apiResult) THEN Append(jobs, ShutdownJob(now + CHECK_DELAY)) ELSE jobs
    /\ pc' = "job_done"
    /\ UNCHANGED <<ACCESS_TOKEN, cfgVars, now, runList, task, site, apiAttempt, apiResult,
                   tokFrame, gvdFrame, decision, outcome, apiHist, cmds, jobsBefore>>
    /\ armed' = IF Truthy(apiResult) THEN armed + 1 ELSE armed
    /\ UNCHANGED <<cmdFrame, startsIssued, checksRun, faulted>>

(* hvac_job, line 188: schedule.every(CHECK_DELAY).seconds.do(check_shutdown).tag(...) *)
ArmShutdownCheck ==
    /\ pc = "api_return"
    /\ site = "set_temps"
    /\ jobs' = Append(jobs, ShutdownJob(now + CHECK_DELAY))
    /\ pc' = "job_done"
    /\ UNCHANGED <<ACCESS_TOKEN, cfgVars, now, runList, task, site, apiAttempt, apiResult,
                   tokFrame, gvdFrame, decision, outcome, apiHist, cmds, jobsBefore>>
    /\ armed' = armed + 1
    /\ UNCHANGED <<cmdFrame, startsIssued, checksRun, faulted>>

(* stop_hvac, line 153 *)
StopHvac ==
    /\ pc = "stop_hvac"
    /\ cmds' = Append(cmds, "auto_conditioning_stop")
    /\ decision' = NoDecision
    /\ ResetGvd
    /\ EnterApi("auto_conditioning_stop")
    /\ UNCHANGED <<ACCESS_TOKEN, cfgVars, schedVars, task, tokFrame, outcome, jobsBefore>>
    /\ UNCHANGED <<startResult, history>>

(* check_shutdown, lines 212-213: stop_hvac has returned *)
StopReturned ==
    /\ pc = "api_return"
    /\ site = "auto_conditioning_stop"
    /\ pc' = "job_done"
    /\ UNCHANGED <<ACCESS_TOKEN, cfgVars, schedVars, task, site, apiAttempt, apiResult,
                   tokFrame, gvdFrame, decision, outcome, apiHist, cmds, jobsBefore>>
    /\ UNCHANGED <<cmdFrame, history>>

(* an exception that ends the process instead of being caught *)
FaultTerminates ==
    /\ pc = "token_request"
    /\ tokAttempt < TokenRetries
    /\ pc' = "crashed"
    /\ faulted' = TRUE
    /\ UNCHANGED <<ACCESS_TOKEN, cfgVars, schedVars, task, site, apiAttempt, apiResult,
                   tokFrame, gvdFrame, decision, outcome, apiHist, cmds, jobsBefore,
                   cmdFrame, startsIssued, armed, checksRun>>

(* line 70 raises something that is not a RequestException (the 2xx body of the
   token exchange is JSON but not an object): the exception leaves
   get_access_token and api_get / api_post. Raised under get_vehicle_data
   (lines 161, 199, outside the try) it leaves the job function and
   run_pending and is caught at lines 236-238, the job not rescheduled and
   the rest of this poll dropped; raised under start_hvac / stop_hvac it is
   caught at line 192 / 217 and the job function returns. *)
Fault ==
    /\ pc = "token_request"
    /\ tokAttempt < TokenRetries
    /\ LeaveToken
    /\ faulted' = TRUE
    /\ IF site \in {"vehicle_data", "wake_up"}
       THEN /\ pc' = "run_pending"
            /\ runList' = <<>>
            /\ task' = "none"
            /\ outcome' = "none"
            /\ cmds' = <<>>
            /\ jobsBefore' = <<>>
            /\ site' = "none"
            /\ apiAttempt' = 0
            /\ reqSent' = 0
            /\ n401' = 0
            /\ genericFails' = 0
            /\ authFailed' = FALSE
            /\ ResetGvd
            /\ postData' = {}
       ELSE /\ pc' = "job_done"
            /\ UNCHANGED <<runList, task, outcome, cmds, jobsBefore, site, apiAttempt,
                           apiHist, gvdFrame, postData>>
    /\ UNCHANGED <<ACCESS_TOKEN, cfgVars, now, jobs, apiResult, decision, startResult,
                   startsIssued, armed, checksRun>>

----------------------------------------------------------------------------
Next ==
    \/ ScheduleHvacJob
    \/ RunPending
    \/ RunHvacJob
    \/ RunCheckShutdown
    \/ Sleep
    \/ JobDone
    \/ TokenRequest
    \/ TokenReturn
    \/ ApiLoop
    \/ ApiRequest401
    \/ ApiRequestError
    \/ ApiRequestOk
    \/ FetchedSnapshot
    \/ WakeVehicle
    \/ NextFetch
    \/ StartHvac
    \/ SetTemps
    \/ ArmShutdownCheck
    \/ StopHvac
    \/ StopReturned

Spec == Init /\ [][Next]_vars

(* How far a task run has got: the call it is in (the fetches and wakes of
   get_vehicle_data in order, then the commands), the pass of the api_get /
   api_post loop, and the place within that pass (lazy token exchange and its
   attempts, the request, the refresh after a 401 and its attempts). *)
RunProgress(p, s, g, a, ts, ta) ==
    LET call == IF s = "vehicle_data" THEN 2 * g
                ELSE IF s = "wake_up" THEN 2 * g + 1
                ELSE IF s = "none" THEN 10
                ELSE IF s = "set_temps" THEN 12
                ELSE 11
        place == IF p = "api_loop" THEN 0
                 ELSE IF p = "token_request" /\ ts = "lazy" THEN 1 + ta
                 ELSE IF p = "token_return" /\ ts = "lazy" THEN 4
                 ELSE IF p = "api_request" THEN 5
                 ELSE IF p = "token_request" THEN 6 + ta
                 ELSE IF p = "token_return" THEN 9
                 ELSE 0
    IN  IF p = "job_done" THEN 13 * 50
        ELSE IF p = "api_return" THEN call * 50 + 45
        ELSE IF p \in {"start_hvac", "stop_hvac"} THEN 10 * 50
        ELSE call * 50 + a * 10 + place

(* the program with the token exchange also able to raise *)
NextFault == Next \/ Fault

SpecFault == Init /\ [][NextFault]_vars

(* the same program with the active days and the weekday of the start varied *)
SpecDays == InitDays /\ [][Next]_vars

----------------------------------------------------------------------------
(* Properties *)

(* C1: for every snapshot the daily job has fetched, it starts climate
   conditioning if and only if the outside reading is present and strictly
   below the outdoor threshold, or the inside reading is present and strictly
   above the indoor threshold; the start command is issued by a run exactly
   when the run was triggered. *)
C1_TriggerIff ==
    /\ decision.kind = "hvac_job" =>
         LET o == decision.snapshot.outside_temp
             i == decision.snapshot.inside_temp
             cond == \/ o # Absent /\ o[1] < 4
                     \/ i # Absent /\ i[1] > 25
         IN  /\ (pc = "start_hvac") <=> cond
             /\ (pc = "job_done") <=> ~cond
             /\ (outcome = "Triggered") <=> cond
    /\ (task = "hvac_job" /\ pc = "job_done") =>
         ((outcome = "Triggered") <=> (Len(cmds) > 0 /\ cmds[1] = "auto_conditioning_start"))

(* C1 witness: a reading equal to its threshold, the other absent: skipped *)
C1_Witness ==
    /\ decision.kind = "hvac_job"
    /\ decision.snapshot.outside_temp = Some(4)
    /\ decision.snapshot.inside_temp = Absent
    /\ outcome = "Skipped"
    /\ pc = "job_done"

(* C2: at most one shutdown check is pending in every reachable state. *)
C2_AtMostOnePending == Len(Pending(jobs)) <= 1

(* C3: a shutdown check whose fetch succeeded issues exactly one stop command
   if the speed is absent or zero, and none if it is present and non-zero. *)
C3_StopIffStationary ==
    /\ decision.kind = "check_shutdown" =>
         LET v == decision.snapshot.speed
             idle == v = Absent \/ v[1] = 0
         IN  /\ (pc = "stop_hvac") <=> idle
             /\ (outcome = "Idle") <=> idle
             /\ (outcome = "Moving") <=> ~idle
             /\ cmds = <<>>
    /\ (task = "check_shutdown" /\ outcome = "Idle" /\ pc \notin {"stop_hvac"}) =>
         cmds = <<"auto_conditioning_stop">>
    /\ (task = "check_shutdown" /\ outcome \in {"Moving", "running", "Unavailable"}) =>
         cmds = <<>>

(* C3 witness: the check found the speed absent and the stop call has returned *)
C3_Witness ==
    /\ task = "check_shutdown"
    /\ outcome = "Idle"
    /\ pc = "job_done"
    /\ cmds = <<"auto_conditioning_stop">>

(* C4: a 401 does not consume the generic retry budget: whenever a call gives
   up (returns Failure without a failed token exchange), it has had the full
   `retries` count of non-authorization failures, so every 401, in the last
   slot too, was followed by a retried request. *)
C4_401KeepsBudget ==
    (pc = "api_return" /\ apiResult = None /\ ~authFailed) => genericFails = ApiRetries

(* C5: get_access_token makes at most `retries` exchange attempts, returns
   False exactly when all of them failed, and returns True only with a
   credential stored. *)
C5_TokenResult ==
    /\ tokSent <= TokenRetries
    /\ pc = "token_return" =>
         /\ tokResult \in {"True", "False"}
         /\ (tokResult = "False") <=> (tokAttempt = TokenRetries /\ tokSent = TokenRetries)
         /\ (tokResult = "True") => ~TokenAbsent(ACCESS_TOKEN)

(* C6: once a token exchange of an api_get / api_post call has exhausted its
   attempts, the call sends no further vehicle-API request and returns Failure. *)
C6_AuthFailureEndsCall ==
    /\ authFailed => pc # "api_request"
    /\ (authFailed /\ pc = "api_return") => apiResult = None

(* C7: each non-authorization request failure consumes exactly one attempt; a
   call all of whose requests failed that way (and that no failed token
   exchange cut short) has sent exactly `retries` requests and returns None;
   a call returns a JSON value or None. *)
C7_GenericFailures ==
    /\ pc \in {"api_loop", "api_request"} => apiAttempt - n401 = genericFails
    /\ genericFails <= 3
    /\ (pc = "api_return" /\ reqSent = genericFails /\ ~authFailed) =>
         (reqSent = 3 /\ apiResult = None)
    /\ (pc = "api_return" /\ genericFails = 3) => apiResult = None
    /\ pc = "api_return" => apiResult \in {None, "EmptyJson", "Json"}

(* C7 witness: three requests, each failed, then Failure *)
C7_Witness ==
    /\ pc = "api_return"
    /\ reqSent = 3
    /\ genericFails = 3
    /\ apiResult = None

(* C8: get_vehicle_data makes at most 5 fetch attempts, returns at the first
   one with data, wakes the vehicle once after each failed or empty attempt,
   and returns Failure only after 5 failed attempts. *)
C8_FetchAndWake ==
    /\ fetches <= 5
    /\ decision.kind \in {"hvac_job", "check_shutdown"} =>
         (failedFetches = fetches - 1 /\ wakes = failedFetches)
    /\ outcome = "Unavailable" => (fetches = 5 /\ failedFetches = 5 /\ wakes = 5)
    /\ outcome = "running" =>
         /\ site = "vehicle_data" =>
              IF pc = "api_return"
              THEN failedFetches = fetches /\ wakes = failedFetches - 1
              ELSE failedFetches = fetches - 1 /\ wakes = failedFetches
         /\ site = "wake_up" => (failedFetches = fetches /\ wakes = failedFetches)

(* C8 witness: five attempts failed, the fifth wake failed too *)
C8_Witness ==
    /\ outcome = "Unavailable"
    /\ wakes = 5
    /\ site = "wake_up"
    /\ apiResult = None

(* C9: a triggered run calls start_hvac and then arms exactly one shutdown
   check, due CHECK_DELAY after now, whatever the two commands returned. *)
C9_TriggeredArmsOne ==
    (task = "hvac_job" /\ outcome = "Triggered") =>
        IF pc = "job_done"
        THEN /\ cmds = <<"auto_conditioning_start", "set_temps">>
             /\ Len(jobs) = Len(jobsBefore) + 1
             /\ SubSeq(jobs, 1, Len(jobsBefore)) = jobsBefore
             /\ jobs[Len(jobs)].func = "check_shutdown"
             /\ jobs[Len(jobs)].next_run = now + CHECK_DELAY
             /\ Len(Pending(jobs)) = Len(Pending(jobsBefore)) + 1
        ELSE jobs = jobsBefore

(* C9 witness: the set-temperature command returned Failure, the check is armed *)
C9_Witness ==
    /\ task = "hvac_job"
    /\ outcome = "Triggered"
    /\ pc = "job_done"
    /\ apiResult = None
    /\ Len(Pending(jobs)) = Len(Pending(jobsBefore)) + 1

(* C10: a run of the daily job that is skipped, or whose fetch fails, issues
   no climate command and leaves the job list as it was. *)
C10_SkippedDoesNothing ==
    (task = "hvac_job" /\ outcome \in {"running", "Skipped", "Unavailable"}) =>
        (cmds = <<>> /\ jobs = jobsBefore)

(* C10 witness: a skipped run with a shutdown check pending *)
C10_Witness ==
    /\ task = "hvac_job"
    /\ outcome = "Skipped"
    /\ pc = "job_done"
    /\ Len(Pending(jobs)) = 1

(* C11: a shutdown check whose fetch failed on every attempt issues no
   command, arms no further check, and returns to the scheduler loop. *)
C11_FailedCheckDoesNothing ==
    (task = "check_shutdown" /\ outcome = "Unavailable") =>
        /\ cmds = <<>>
        /\ jobs = jobsBefore
        /\ Pending(jobs) = <<>>
        /\ fetches = GvdRetries
        /\ pc = "job_done"
        /\ ENABLED JobDone

(* C11 witness: a shutdown check gave up after the last failed fetch *)
C11_Witness ==
    /\ task = "check_shutdown"
    /\ outcome = "Unavailable"
    /\ pc = "job_done"
    /\ failedFetches = GvdRetries

(* C12: a shutdown check runs, and a stop command is issued, only after a
   start command: a check is armed only in a run of the daily job that has
   already issued its start command, and a check runs only if one was armed
   before it. *)
C12_CheckAfterStart ==
    /\ [](/\ checksRun <= armed
          /\ armed <= startsIssued
          /\ (task = "check_shutdown" => startsIssued >= 1)
          /\ \A i \in 1 .. Len(cmds) :
                cmds[i] = "auto_conditioning_stop" =>
                    (task = "check_shutdown" /\ startsIssued >= 1))
    /\ [][/\ (armed' > armed =>
                (task = "hvac_job" /\ cmds = <<"auto_conditioning_start", "set_temps">>))
          /\ (checksRun' > checksRun => checksRun < armed)]_vars

(* C12 witness: a shutdown check has issued its stop command *)
C12_Witness ==
    /\ task = "check_shutdown"
    /\ cmds = <<"auto_conditioning_stop">>
    /\ pc = "api_return"
    /\ checksRun = 1
    /\ startsIssued >= 1

(* C13: whenever the daily job runs, the weekday of that day is in DAYS. *)
C13_RunsOnActiveDaysOnly ==
    task = "hvac_job" => Weekday(now) \in DAYS

(* C14: after schedule_hvac_job, a process started on a day outside DAYS
   has no job at all, runs no task and sends no request at any time; a
   process started on a day in DAYS has exactly one daily job, due at
   START_TIME. *)
C14_RegistersIffActiveDay ==
    pc # "start" =>
        IF weekday0 \in DAYS
        THEN /\ Len(SelectSeq(jobs, LAMBDA j : j.func = "hvac_job")) = 1
             /\ \A i \in 1 .. Len(jobs) :
                    jobs[i].func = "hvac_job" =>
                        (jobs[i].next_run % DayLen = START_TIME /\ jobs[i].next_run >= now)
        ELSE /\ jobs = <<>>
             /\ runList = <<>>
             /\ task = "none"
             /\ pc \in {"run_pending", "run_job"}
             /\ site = "none"
             /\ tokSite = "none"
             /\ ACCESS_TOKEN = NoToken
             /\ startsIssued = 0
             /\ checksRun = 0

(* C14 witness: started on a Saturday with only working days active, the
   process has polled through Sunday and Monday with nothing registered *)
C14_Witness ==
    /\ weekday0 \notin DAYS
    /\ Weekday(now) \in DAYS
    /\ now = MaxTime
    /\ pc = "run_job"
    /\ jobs = <<>>

(* C15: the shutdown check is single-shot. From its first step on, a run of
   check_shutdown has no shutdown check pending and adds no job; there are
   never more runs of the check than armings; and the number of pending
   checks grows only in a run of the daily job that was Triggered. *)
C15_SingleShot ==
    /\ [](task = "check_shutdown" =>
            (Pending(jobs) = <<>> /\ jobs = jobsBefore))
    /\ [](checksRun <= armed)
    /\ [][Len(Pending(jobs')) > Len(Pending(jobs)) =>
            (task = "hvac_job" /\ outcome = "Triggered")]_vars

(* C15 witness: one check has been armed and has run, and a later Triggered
   run of the daily job has armed the next one *)
C15_Witness ==
    /\ checksRun = 1
    /\ armed = 2
    /\ Len(Pending(jobs)) = 1
    /\ task = "hvac_job"
    /\ pc = "job_done"

(* C16: no failure ends the scheduler loop. Whatever a run met (no token,
   failed requests, no snapshot, a failed command, an exception), the
   program always has a next step until the end of the modelled time; the
   daily job stays registered; and when a poll starts no job is overdue, so
   every task that came due was executed. *)
C16_LoopSurvives ==
    /\ pc \in {"start", "run_pending", "run_job", "api_loop", "api_request",
               "token_request", "token_return", "api_return", "start_hvac",
               "stop_hvac", "job_done"}
    /\ (ENABLED NextFault) \/ (pc = "run_job" /\ runList = <<>> /\ now = MaxTime)
    /\ pc # "start" => Len(SelectSeq(jobs, LAMBDA j : j.func = "hvac_job")) = 1
    /\ pc = "run_pending" => \A i \in 1 .. Len(jobs) : jobs[i].next_run >= now

(* C16 witness: after an exception in an earlier poll, a shutdown check has
   been executed and has taken its decision *)
C16_Witness ==
    /\ faulted
    /\ task = "check_shutdown"
    /\ outcome = "Moving"
    /\ pc = "job_done"

(* C17: a vehicle-API request is sent only while ACCESS_TOKEN is present. *)
C17_RequestsCarryToken ==
    pc = "api_request" => ~TokenAbsent(ACCESS_TOKEN)

(* C18: every shutdown check that was armed has been executed or is still
   registered, waiting to be executed; and a job is run only once its due
   time, CHECK_DELAY after the arming for a shutdown check, has come. *)
C18_ArmedCheckRuns ==
    /\ armed = checksRun + Len(Pending(jobs))
    /\ \A i \in 1 .. Len(runList) : runList[i].next_run <= now

(* C19: start_hvac issues the start command first, with an empty body, and
   the set-temperature command second, with driver_temp and passenger_temp
   both the target temperature; the step after the start command's return
   is the set-temperature command whatever the start command returned; a
   run of the daily job issues no other command. *)
C19_StartThenSetTemps ==
    /\ [](/\ task = "hvac_job" =>
                cmds \in {<<>>, <<"auto_conditioning_start">>,
                          <<"auto_conditioning_start", "set_temps">>}
          /\ site = "auto_conditioning_start" =>
                (cmds = <<"auto_conditioning_start">> /\ postData = {})
          /\ site = "set_temps" =>
                /\ cmds = <<"auto_conditioning_start", "set_temps">>
                /\ {kv[1] : kv \in postData} = {"driver_temp", "passenger_temp"}
                /\ \A kv \in postData : kv[2] = TARGET_TEMP
                /\ startResult # "none")
    /\ [][(pc = "api_return" /\ site = "auto_conditioning_start") =>
            (site' = "set_temps" /\ cmds' = Append(cmds, "set_temps")
             /\ startResult' = apiResult)]_vars

(* C19 witness: the set-temperature command is under way after the start
   command returned Failure *)
C19_Witness ==
    /\ site = "set_temps"
    /\ pc = "api_request"
    /\ startResult = None
    /\ cmds = <<"auto_conditioning_start", "set_temps">>

(* C20: one api_get / api_post call sends at most `retries` requests, 401
   answers included; one get_access_token call makes at most `retries`
   exchanges; one get_vehicle_data call makes at most 5 api_get calls and 5
   wake calls; and every step of a task run moves it strictly forward through
   its loops, so the run ends after a bounded number of steps. *)
C20_RunsAreBounded ==
    /\ [](/\ reqSent <= ApiRetries
          /\ n401 + genericFails <= ApiRetries
          /\ tokSent <= TokenRetries
          /\ fetches <= GvdRetries
          /\ wakes <= GvdRetries
          /\ apiAttempt <= ApiRetries
          /\ RunProgress(pc, site, gvdAttempt, apiAttempt, tokSite, tokAttempt) <= 13 * 50)
    /\ [][(pc \in {"api_loop", "api_request", "token_request", "token_return",
                   "api_return", "start_hvac", "stop_hvac"}) =>
            (RunProgress(pc, site, gvdAttempt, apiAttempt, tokSite, tokAttempt) <
             RunProgress(pc', site', gvdAttempt', apiAttempt', tokSite', tokAttempt'))]_vars

(* C20 witness: the last wake call of a fetch that failed five times has
   returned after three requests all answered 401 *)
C20_Witness ==
    /\ pc = "api_return"
    /\ site = "wake_up"
    /\ gvdAttempt = GvdRetries - 1
    /\ n401 = ApiRetries
    /\ reqSent = ApiRetries

====
